---------------------------- MODULE Spec2Model ----------------------------
(***************************************************************************)
(* Snowflake.RunSQLAction: the SQL limiter, the row-cap clamp, the file    *)
(* naming of persisted results and the run of main(), modelled from the    *)
(* TypeScript sources.  Text is a sequence of one-character strings, so    *)
(* that trimming, comment stripping, the LIMIT regular expression and      *)
(* number formatting are computed character by character as the code does. *)
(***************************************************************************)
EXTENDS Integers, Sequences, FiniteSets, TLC

\* ------------------------------------------------------------------ bounds

\* the fragments typed after the head of a SQL text
MaxFrags == 4

\* the longest return-rows text handed to clampRows, in characters
MaxCapChars == 5

\* the longest query identifier, in characters
MaxIdLen == 3

\* the most rows runSql returns
MaxResultRows == 3

\* rows given to buildCsvPayload
MaxCsvRows == 2

\* characters of a string given to csvEscape
MaxValueLen == 3

\* rows of a result given to buildSummary
MaxSummaryRows == 6

\* the fragments typed after the head of a SQL text that is limited twice
MaxReFrags == 3

\* ------------------------------------------------------------- characters

Lower == <<"a","b","c","d","e","f","g","h","i","j","k","l","m",
           "n","o","p","q","r","s","t","u","v","w","x","y","z">>

Upper == <<"A","B","C","D","E","F","G","H","I","J","K","L","M",
           "N","O","P","Q","R","S","T","U","V","W","X","Y","Z">>

DigitChars == <<"0","1","2","3","4","5","6","7","8","9">>

Range(f) == { f[i] : i \in DOMAIN f }

\* String.prototype.toUpperCase, one character
ToUpperChar(c) ==
    IF \E i \in DOMAIN Lower : Lower[i] = c
    THEN Upper[CHOOSE i \in DOMAIN Lower : Lower[i] = c]
    ELSE c

\* String.prototype.toUpperCase
toUpperCase(s) == [i \in DOMAIN s |-> ToUpperChar(s[i])]

\* \s of a JavaScript regular expression, and what trim() removes
IsSpace(c) == c \in {" ", "\t", "\n", "\r"}

\* what `.` does not match and `$` (flag m) stops before
IsLineTerminator(c) == c \in {"\n", "\r"}

\* \d
IsDigit(c) == c \in Range(DigitChars)

\* \w, which decides \b
IsWordChar(c) == c \in Range(Lower) \cup Range(Upper) \cup Range(DigitChars) \cup {"_"}

\* s.slice(from - 1): the text from index `from` on
Drop(s, from) == SubSeq(s, from, Len(s))

\* s.startsWith(p)
startsWith(s, p) == Len(s) >= Len(p) /\ SubSeq(s, 1, Len(p)) = p

RECURSIVE trimStart(_)
\* String.prototype.trimStart
trimStart(s) ==
    IF s = <<>> \/ ~IsSpace(s[1]) THEN s ELSE trimStart(Tail(s))

RECURSIVE trimEnd(_)
\* String.prototype.trimEnd
trimEnd(s) ==
    IF s = <<>> \/ ~IsSpace(s[Len(s)]) THEN s ELSE trimEnd(SubSeq(s, 1, Len(s) - 1))

\* trim gone wrong: one whitespace character is taken off each end
trim_oneEach(s) ==
    LET t == IF s # <<>> /\ IsSpace(s[1]) THEN Tail(s) ELSE s
    IN  IF t # <<>> /\ IsSpace(t[Len(t)]) THEN SubSeq(t, 1, Len(t) - 1) ELSE t

\* String.prototype.trim
trim(s) == trimEnd(trimStart(s))

RECURSIVE DigitsOf(_)
\* the decimal digits of a natural number
DigitsOf(k) ==
    IF k < 10 THEN <<DigitChars[k + 1]>>
    ELSE DigitsOf(k \div 10) \o <<DigitChars[(k % 10) + 1]>>

\* ------------------------------------------------------------ SQL limiter

LIMITABLE_PREFIXES ==
    { <<"S","E","L","E","C","T">>, <<"W","I","T","H">>, <<"S","H","O","W">>,
      <<"D","E","S","C">>, <<"D","E","S","C","R","I","B","E">> }

\* the first index >= i holding a line terminator, or Len(s) + 1
LineEnd(s, i) ==
    IF \E j \in i..Len(s) : IsLineTerminator(s[j])
    THEN CHOOSE j \in i..Len(s) :
            IsLineTerminator(s[j]) /\ \A k \in i..(j - 1) : ~IsLineTerminator(s[k])
    ELSE Len(s) + 1

RECURSIVE StripLineComments(_, _)
\* sql.replace(/--.*$/gm, ''), from index i on
StripLineComments(s, i) ==
    IF i > Len(s) THEN <<>>
    ELSE IF i < Len(s) /\ s[i] = "-" /\ s[i + 1] = "-"
         THEN StripLineComments(s, LineEnd(s, i + 2))
         ELSE <<s[i]>> \o StripLineComments(s, i + 1)

\* the indexes j >= i + 2 where a block comment opened at i can close
BlockCloses(s, i) ==
    { j \in (i + 2)..(Len(s) - 1) : s[j] = "*" /\ s[j + 1] = "/" }

RECURSIVE StripBlockComments(_, _)
\* .replace(/\/\*[\s\S]*?\*\//g, ''), from index i on
StripBlockComments(s, i) ==
    IF i > Len(s) THEN <<>>
    ELSE IF i < Len(s) /\ s[i] = "/" /\ s[i + 1] = "*" /\ BlockCloses(s, i) # {}
         THEN LET j == CHOOSE j \in BlockCloses(s, i) :
                          \A k \in BlockCloses(s, i) : j <= k
              IN  StripBlockComments(s, j + 2)
         ELSE <<s[i]>> \o StripBlockComments(s, i + 1)

stripSqlComments(sql) == StripBlockComments(StripLineComments(sql, 1), 1)

LimitWord == <<"L","I","M","I","T">>

\* /\blimit\s+\d+/i matches s with `limit` at index i and its first digit at j
LimitMatchAt(s, i, j) ==
    /\ i >= 1 /\ i + 6 <= j /\ j <= Len(s)
    /\ (i = 1 \/ ~IsWordChar(s[i - 1]))
    /\ toUpperCase(SubSeq(s, i, i + 4)) = LimitWord
    /\ \A k \in (i + 5)..(j - 1) : IsSpace(s[k])
    /\ IsDigit(s[j])

\* /\blimit\s+\d+/i.test(s)
HasLimitClause(s) ==
    \E i \in 1..Len(s) : \E j \in (i + 6)..Len(s) : LimitMatchAt(s, i, j)

\* the length of the match of /^[^\s(]+/, 0 when there is none
FirstTokenLen(s) ==
    IF \E j \in 1..Len(s) : IsSpace(s[j]) \/ s[j] = "("
    THEN (CHOOSE j \in 1..Len(s) :
             /\ IsSpace(s[j]) \/ s[j] = "("
             /\ \A k \in 1..(j - 1) : ~(IsSpace(s[k]) \/ s[k] = "(")) - 1
    ELSE Len(s)

\* firstTokenMatch ? firstTokenMatch[0].toUpperCase() : ''
FirstToken(trimmed) == toUpperCase(SubSeq(trimmed, 1, FirstTokenLen(trimmed)))

\* stripTrailingSemicolons gone wrong: `if` for `while`
stripTrailingSemicolons_once(sql) ==
    LET body == trimEnd(sql)
    IN  IF body # <<>> /\ body[Len(body)] = ";"
        THEN [body |-> trimEnd(SubSeq(body, 1, Len(body) - 1)), semicolon |-> TRUE]
        ELSE [body |-> body, semicolon |-> FALSE]

RECURSIVE StripLoop(_, _)
\* the while loop of stripTrailingSemicolons
StripLoop(body, hadSemicolon) ==
    IF body # <<>> /\ body[Len(body)] = ";"
    THEN StripLoop(trimEnd(SubSeq(body, 1, Len(body) - 1)), TRUE)
    ELSE [body |-> body, semicolon |-> hadSemicolon]

stripTrailingSemicolons(sql) == StripLoop(trimEnd(sql), FALSE)

\* a JavaScript number that is a decimal fraction n / d, d a power of ten;
\* NaN is d = 0
Num(k) == [n |-> k, d |-> 1]

NaN == [n |-> 0, d |-> 0]

isNaN(x) == x.d = 0

NumLE(x, y) == x.n * y.d <= y.n * x.d

NumLT(x, y) == x.n * y.d < y.n * x.d

IsInteger(x) == x.d > 0 /\ x.n % x.d = 0

RECURSIVE FractionDigits(_, _)
\* the digits of r / d after the decimal point, without trailing zeros
FractionDigits(r, d) ==
    IF r = 0 \/ d <= 1 THEN <<>>
    ELSE <<DigitChars[((r * 10) \div d) + 1]>> \o FractionDigits((r * 10) % d, d)

\* Number.prototype.toString of a number >= 0 (template literal `${maxRows}`)
NumberToString(x) ==
    IF isNaN(x) THEN <<"N","a","N">>
    ELSE IF x.n % x.d = 0 THEN DigitsOf(x.n \div x.d)
    ELSE DigitsOf(x.n \div x.d) \o <<".">> \o FractionDigits(x.n % x.d, x.d)

NoReason == "undefined"

WrapHead == <<"s","e","l","e","c","t"," ","*"," ","f","r","o","m"," ","(","\n">>

WrapTail == <<"\n",")"," ","l","i","m","i","t"," ">>

LimitInfix == <<" ","l","i","m","i","t"," ">>

\* enforceSqlLimit gone wrong: statements of any other type are wrapped too
enforceSqlLimit_wrapAll(sqlText, maxRows) ==
    LET trimmed == trim(sqlText)
        firstToken == FirstToken(trimmed)
    IN  IF trimmed = <<>>
        THEN [sql |-> trimmed, applied |-> FALSE, reason |-> "empty-sql"]
        ELSE IF HasLimitClause(stripSqlComments(trimmed))
        THEN [sql |-> trimmed, applied |-> FALSE, reason |-> "existing-limit-detected"]
        ELSE IF firstToken \in LIMITABLE_PREFIXES
        THEN LET st == stripTrailingSemicolons(trimmed)
             IN  [sql |-> st.body \o LimitInfix \o NumberToString(maxRows)
                          \o (IF st.semicolon THEN <<";">> ELSE <<>>),
                  applied |-> TRUE, reason |-> NoReason]
        ELSE [sql |-> WrapHead \o trimmed \o WrapTail \o NumberToString(maxRows),
              applied |-> TRUE, reason |-> NoReason]

enforceSqlLimit(sqlText, maxRows) ==
    LET trimmed == trim(sqlText)
        firstToken == FirstToken(trimmed)
    IN  IF trimmed = <<>>
        THEN [sql |-> trimmed, applied |-> FALSE, reason |-> "empty-sql"]
        ELSE IF HasLimitClause(stripSqlComments(trimmed))
        THEN [sql |-> trimmed, applied |-> FALSE, reason |-> "existing-limit-detected"]
        ELSE IF firstToken \in LIMITABLE_PREFIXES
        THEN LET st == stripTrailingSemicolons(trimmed)
             IN  [sql |-> st.body \o LimitInfix \o NumberToString(maxRows)
                          \o (IF st.semicolon THEN <<";">> ELSE <<>>),
                  applied |-> TRUE, reason |-> NoReason]
        ELSE IF startsWith(firstToken, <<"S","E","L","E","C","T">>)
                \/ startsWith(trimmed, <<"(">>)
        THEN [sql |-> WrapHead \o trimmed \o WrapTail \o NumberToString(maxRows),
              applied |-> TRUE, reason |-> NoReason]
        ELSE [sql |-> trimmed, applied |-> FALSE,
              reason |-> "statement-type-not-supported-for-limit"]

\* ---------------------------------------------------------------- row cap

DEFAULT_ROWS == 100

MAX_ROWS_RUNSQL == 1000

MAX_ROWS_PERSIST == 10000

Revisions == {"runsql", "persist"}

\* the upper bound of the revision's clampRows
MaxRowsOf(rev) == IF rev = "runsql" THEN MAX_ROWS_RUNSQL ELSE MAX_ROWS_PERSIST

\* an optional string: process.env.X, or an argument that may be undefined
Undefined == [defined |-> FALSE, text |-> <<>>]

Str(t) == [defined |-> TRUE, text |-> t]

\* a || b on strings: the empty string and undefined are falsy
OrElse(a, b) == IF a.defined /\ a.text # <<>> THEN a ELSE b

RECURSIVE IntOf(_)
\* the value of a sequence of decimal digits
IntOf(ds) ==
    IF ds = <<>> THEN 0
    ELSE 10 * IntOf(SubSeq(ds, 1, Len(ds) - 1))
         + ((CHOOSE i \in DOMAIN DigitChars : DigitChars[i] = ds[Len(ds)]) - 1)

RECURSIVE Pow10(_)
Pow10(k) == IF k = 0 THEN 1 ELSE 10 * Pow10(k - 1)

\* Number(text) for texts of digits, ".", a sign and other characters (no
\* exponent, no radix prefix, no "Infinity"): StringToNumber
StringToNumber(text) ==
    LET t == trim(text)
        signed == t # <<>> /\ t[1] \in {"-", "+"}
        u == IF signed THEN Tail(t) ELSE t
        dots == { i \in 1..Len(u) : u[i] = "." }
        digits == SelectSeq(u, IsDigit)
        dot == IF dots = {} THEN Len(u) + 1 ELSE CHOOSE i \in dots : TRUE
        mag == IntOf(digits)
    IN  IF t = <<>> THEN Num(0)
        ELSE IF /\ Cardinality(dots) <= 1
                /\ digits # <<>>
                /\ \A i \in 1..Len(u) : IsDigit(u[i]) \/ u[i] = "."
             THEN [n |-> IF signed /\ t[1] = "-" THEN 0 - mag ELSE mag,
                   d |-> Pow10(Len(u) - dot + (IF dots = {} THEN 1 ELSE 0))]
             ELSE NaN

\* Math.min(cap, raw)
MathMin(cap, raw) == IF NumLT(raw, Num(cap)) THEN raw ELSE Num(cap)

\* the body of clampRows, with the revision's upper bound
ClampRowsTo(value, cap) ==
    LET raw == StringToNumber(IF value.defined THEN value.text ELSE <<>>)
    IN  IF isNaN(raw) \/ NumLE(raw, Num(0)) THEN Num(DEFAULT_ROWS)
        ELSE MathMin(cap, raw)

clampRows(rev, value) == ClampRowsTo(value, MaxRowsOf(rev))

\* ------------------------------------------------------------- file names

\* the index after the last "/" of p before index e, 1 when there is none
StartPart(p, e) ==
    LET slashes == { i \in 1..(e - 1) : p[i] = "/" }
    IN  IF slashes = {} THEN 1
        ELSE (CHOOSE i \in slashes : \A k \in slashes : k <= i) + 1

\* the length of p without its trailing "/" characters
EndOfBase(p) ==
    LET solid == { i \in 1..Len(p) : p[i] # "/" }
    IN  IF solid = {} THEN 0 ELSE CHOOSE i \in solid : \A k \in solid : k <= i

\* path.parse(p) of a relative POSIX path: its name and ext
pathParse(p) ==
    LET e == EndOfBase(p)
        sp == StartPart(p, e)
        base == SubSeq(p, sp, e)
        dots == { i \in 1..Len(base) : base[i] = "." }
        startDot == IF dots = {} THEN 0 ELSE CHOOSE i \in dots : \A k \in dots : k <= i
        preDotState == IF startDot <= 1 THEN 0
                       ELSE IF base[1] = "." THEN 1 ELSE 0 - 1
    IN  IF e = 0 THEN [name |-> <<>>, ext |-> <<>>]
        ELSE IF \/ startDot = 0
                \/ preDotState = 0
                \/ (preDotState = 1 /\ startDot = Len(base) /\ startDot = 2)
        THEN [name |-> base, ext |-> <<>>]
        ELSE [name |-> SubSeq(base, 1, startDot - 1),
              ext |-> SubSeq(base, startDot, Len(base))]

\* [A-Za-z0-9._-]
IsSafeChar(c) == IsWordChar(c) \/ c \in {".", "-"}

\* value.replace(/[^A-Za-z0-9._-]/g, '-')
sanitizeForFilename(value) ==
    [i \in DOMAIN value |-> IF IsSafeChar(value[i]) THEN value[i] ELSE "-"]

ResultWord == <<"r","e","s","u","l","t">>

\* s.split('-').pop(): what follows the last "-"
LastSegment(s) ==
    LET dashes == { i \in 1..Len(s) : s[i] = "-" }
    IN  IF dashes = {} THEN s
        ELSE Drop(s, (CHOOSE i \in dashes : \A k \in dashes : k <= i) + 1)

\* (queryId || 'result').split('-').pop() || 'result'
IdToken(queryId) ==
    LET seg == LastSegment(IF queryId = <<>> THEN ResultWord ELSE queryId)
    IN  IF seg = <<>> THEN ResultWord ELSE seg

DefaultBaseName ==
    <<"s","n","o","w","f","l","a","k","e","-","r","e","s","u","l","t">>

DefaultExt == <<".","c","s","v">>

MetaSuffix == <<".","m","e","t","a",".","j","s","o","n">>

\* path.join(baseDir, name) for a normalized directory and a plain file name
pathJoin(baseDir, name) == baseDir \o <<"/">> \o name

\* buildPersistedPaths gone wrong: the suffix is a prefix (the first
\* character) of the id token, not the full last segment
buildPersistedPaths_prefix(queryId, filename, baseDir) ==
    LET parsed == pathParse(filename)
        baseName == IF parsed.name = <<>> THEN DefaultBaseName ELSE parsed.name
        ext == IF parsed.ext = <<>> THEN DefaultExt ELSE parsed.ext
        safeId == SubSeq(sanitizeForFilename(IdToken(queryId)), 1, 1)
    IN  [csvPath |-> pathJoin(baseDir, baseName \o <<"-">> \o safeId \o ext),
         metadataPath |-> pathJoin(baseDir, baseName \o <<"-">> \o safeId \o MetaSuffix)]

buildPersistedPaths(queryId, filename, baseDir) ==
    LET parsed == pathParse(filename)
        baseName == IF parsed.name = <<>> THEN DefaultBaseName ELSE parsed.name
        ext == IF parsed.ext = <<>> THEN DefaultExt ELSE parsed.ext
        safeId == sanitizeForFilename(IdToken(queryId))
    IN  [csvPath |-> pathJoin(baseDir, baseName \o <<"-">> \o safeId \o ext),
         metadataPath |-> pathJoin(baseDir, baseName \o <<"-">> \o safeId \o MetaSuffix)]

\* ------------------------------------------------------------------- main

DefaultSql ==
    <<"s","e","l","e","c","t"," ","c","u","r","r","e","n","t","_","u","s","e","r",
      "(",")"," ","a","s"," ","c","u","r","r","e","n","t","_","u","s","e","r">>

\* the message of the Error selectSqlText throws (its backquotes left out)
MissingSqlMessage ==
    "SQL input missing. Provide the sql input or set RUN_SQL_STATEMENT."

\* a thrown value: an Error with its message, or anything else
ErrorOf(msg) == [isError |-> TRUE, message |-> msg]

NonError == [isError |-> FALSE, message |-> ""]

NoThrow == [isError |-> FALSE, message |-> "none"]

\* selectSqlText of the persistence revision; threw when it throws
selectSqlText(inputSql, envSql) ==
    LET trimmedInput == trim(inputSql)
        trimmedEnv == IF envSql.defined THEN trim(envSql.text) ELSE <<>>
        candidate == IF trimmedInput # <<>> THEN trimmedInput ELSE trimmedEnv
    IN  [threw |-> candidate = <<>>, text |-> candidate]

\* (inputSql || envSql || 'select current_user() as current_user').trim()
DefaultedSqlText(inputSql, envSql) ==
    trim(OrElse(OrElse(Str(inputSql), envSql), Str(DefaultSql)).text)

\* const sqlText = ... of the revision
SqlTextOf(rev, inputSql, envSql) ==
    IF rev = "persist" THEN selectSqlText(inputSql, envSql)
    ELSE [threw |-> FALSE, text |-> DefaultedSqlText(inputSql, envSql)]

\* one character of String.prototype.toLowerCase
ToLowerChar(c) ==
    IF \E i \in DOMAIN Upper : Upper[i] = c
    THEN Lower[CHOOSE i \in DOMAIN Upper : Upper[i] = c]
    ELSE c

toLowerCase(s) == [i \in DOMAIN s |-> ToLowerChar(s[i])]

TrueWords == { <<"t","r","u","e">>, <<"1">>, <<"y","e","s">>, <<"y">> }

FalseWords == { <<"f","a","l","s","e">>, <<"0">>, <<"n","o">>, <<"n">> }

\* parseBoolean: "true", "false" or "undefined"
parseBoolean(value) ==
    IF ~value.defined \/ value.text = <<>> THEN "undefined"
    ELSE LET normalized == toLowerCase(trim(value.text))
         IN  IF normalized \in TrueWords THEN "true"
             ELSE IF normalized \in FalseWords THEN "false"
             ELSE "undefined"

DefaultFilename ==
    <<"s","n","o","w","f","l","a","k","e","-","r","e","s","u","l","t",".","c","s","v">>

\* resolvePersistenceOptions
resolvePersistenceOptions(in) ==
    LET fromInput == parseBoolean(Str(in.persistInput))
        fromEnv == parseBoolean(in.persistEnv)
        enabled == IF fromInput # "undefined" THEN fromInput = "true"
                   ELSE IF fromEnv # "undefined" THEN fromEnv = "true"
                   ELSE FALSE
        filenameInput == OrElse(OrElse(Str(in.filenameInput), in.filenameEnv),
                                Str(DefaultFilename)).text
        filename == IF trim(filenameInput) # <<>> THEN trim(filenameInput)
                    ELSE DefaultFilename
    IN  [enabled |-> enabled, filename |-> filename, directory |-> in.resultDir]

Cwd == <<"/","w">>

ResultsFolder ==
    <<"s","n","o","w","f","l","a","k","e","-","r","e","s","u","l","t","s">>

\* rootDir and resolvedDir of persistResults
ResolvedDir(options, in) ==
    LET tempRoot == IF in.runnerTemp.defined /\ in.runnerTemp.text # <<>>
                    THEN in.runnerTemp.text
                    ELSE pathJoin(Cwd, ResultsFolder)
        rootDir == OrElse(OrElse(options.directory, in.resultDir),
                          Str(pathJoin(tempRoot, ResultsFolder))).text
    IN  IF rootDir[1] = "/" THEN rootDir ELSE pathJoin(Cwd, rootDir)

\* rows.slice(0, k) for a number k > 0: ToIntegerOrInfinity truncates k
SliceRows(rows, k) ==
    LET whole == k.n \div k.d
    IN  SubSeq(rows, 1, IF whole < Len(rows) THEN whole ELSE Len(rows))

NoNotice == [present |-> FALSE, maxRows |-> Num(0)]

\* trimmedRows, trimmed, and the rows, rowCount and notice of output
OutputOf(rows, cap) ==
    LET trimmedRows == SliceRows(rows, cap)
        trimmed == NumLT(cap, Num(Len(rows)))
    IN  [rows |-> trimmedRows,
         rowCount |-> Len(trimmedRows),
         notice |-> IF trimmed THEN [present |-> TRUE, maxRows |-> cap] ELSE NoNotice]

\* buildSummary of the persistence revision
buildSummary(queryId, requestedSql, plan, cap, out) ==
    [queryId |-> queryId, requestedSql |-> requestedSql, executedSql |-> plan.sql,
     rowCount |-> out.rowCount,
     limit |-> [requestedRows |-> cap, enforcedInSql |-> plan.applied,
                reason |-> plan.reason],
     notice |-> out.notice]

NoSummary ==
    [queryId |-> <<>>, requestedSql |-> <<>>, executedSql |-> <<>>, rowCount |-> 0 - 1,
     limit |-> [requestedRows |-> Num(0), enforcedInSql |-> FALSE,
                reason |-> "not-built"],
     notice |-> NoNotice]

\* buildCsvPayload, line by line: nothing for no rows, else the header line
\* and one line per row, in order
buildCsvPayload(rows) ==
    IF Len(rows) = 0 THEN <<>>
    ELSE <<[header |-> TRUE, row |-> 0]>>
         \o [i \in 1..Len(rows) |-> [header |-> FALSE, row |-> rows[i]]]

\* a file's content: the CSV lines, or the metadata document, or what a
\* previous run left ("old"), or a write cut short ("partial")
CsvFile(payload) ==
    [kind |-> "csv", lines |-> payload, queryId |-> <<>>, requestedSql |-> <<>>,
     executedSql |-> <<>>, rowCount |-> 0]

MetaFile(queryId, requestedSql, executedSql, rowCount) ==
    [kind |-> "meta", lines |-> <<>>, queryId |-> queryId,
     requestedSql |-> requestedSql, executedSql |-> executedSql,
     rowCount |-> rowCount]

OtherFile(kind) ==
    [kind |-> kind, lines |-> <<>>, queryId |-> <<>>, requestedSql |-> <<>>,
     executedSql |-> <<>>, rowCount |-> 0]

\* the files with the one at path p replaced by (or set to) body
WithFile(files, p, body) ==
    { f \in files : f.path # p } \cup { [path |-> p, body |-> body] }

\* console.log / console.warn / console.error: one entry per call
Log(level, tag, rows) == [level |-> level, tag |-> tag, rows |-> rows]

\* FailureMessage gone wrong: the generic message for every caught value
FailureMessage_generic(err) == "Unknown error when running SQL"

\* error instanceof Error ? error.message : 'Unknown error when running SQL'
FailureMessage(err) ==
    IF err.isError THEN err.message ELSE "Unknown error when running SQL"

\* what the catch block of main logs
CatchLogs(err) ==
    <<Log("error", "Snowflake query failed:", <<>>),
      Log("error", IF err.isError THEN "error.stack" ELSE "error", <<>>)>>

\* -------------------------------------------------------------- CSV rows

\* a field value: null, undefined, a string, a number, a Date, or an array
\* holding one string
Value(kind, text, num) == [kind |-> kind, text |-> text, num |-> num]

NullValue == Value("null", <<>>, Num(0))

UndefinedValue == Value("undefined", <<>>, Num(0))

StringValue(text) == Value("string", text, Num(0))

NumberValue(x) == Value("number", <<>>, x)

\* new Date(ms), for a time in the first second of 1970
DateValue(ms) == Value("date", <<>>, Num(ms))

ArrayValue(text) == Value("array", text, Num(0))

\* Date.prototype.toISOString, for a time in the first second of 1970
toISOString(ms) ==
    <<"1","9","7","0","-","0","1","-","0","1","T","0","0",":","0","0",":","0","0",".">>
        \o (IF ms < 10 THEN <<"0","0">> ELSE IF ms < 100 THEN <<"0">> ELSE <<>>)
        \o DigitsOf(ms) \o <<"Z">>

\* JSON.stringify of one character of a string
JsonChar(c) ==
    IF c = "\"" THEN <<"\\", "\"">>
    ELSE IF c = "\\" THEN <<"\\", "\\">>
    ELSE IF c = "\n" THEN <<"\\", "n">>
    ELSE IF c = "\r" THEN <<"\\", "r">>
    ELSE <<c>>

RECURSIVE JsonChars(_)
JsonChars(s) == IF s = <<>> THEN <<>> ELSE JsonChar(Head(s)) \o JsonChars(Tail(s))

\* JSON.stringify of an array holding one string
JSONstringify(text) == <<"[", "\"">> \o JsonChars(text) \o <<"\"", "]">>

\* str of csvEscape: toISOString, JSON.stringify or String(value)
StringOf(value) ==
    IF value.kind = "date" THEN toISOString(value.num.n)
    ELSE IF value.kind = "array" THEN JSONstringify(value.text)
    ELSE IF value.kind = "number" THEN NumberToString(value.num)
    ELSE value.text

\* str.replace(/"/g, '""')
RECURSIVE DoubleQuotes(_)
DoubleQuotes(s) ==
    IF s = <<>> THEN <<>>
    ELSE (IF Head(s) = "\"" THEN <<"\"", "\"">> ELSE <<Head(s)>>)
         \o DoubleQuotes(Tail(s))

\* csvEscape gone wrong: the field is wrapped, its quotes are not doubled
csvEscape_noDoubling(value) ==
    IF value.kind \in {"null", "undefined"} THEN <<>>
    ELSE LET str == StringOf(value)
         IN  IF \E i \in DOMAIN str : str[i] \in {"\"", ",", "\n", "\r"}
             THEN <<"\"">> \o str \o <<"\"">>
             ELSE str

csvEscape(value) ==
    IF value.kind \in {"null", "undefined"} THEN <<>>
    ELSE LET str == StringOf(value)
         IN  IF \E i \in DOMAIN str : str[i] \in {"\"", ",", "\n", "\r"}
             THEN <<"\"">> \o DoubleQuotes(str) \o <<"\"">>
             ELSE str

\* a row is the sequence of its fields [key, value] in the order of
\* Object.keys (keys that are not array indices: insertion order)
ObjectKeys(row) == [i \in DOMAIN row |-> row[i].key]

\* row[col]
Lookup(row, col) ==
    IF \E i \in DOMAIN row : row[i].key = col
    THEN row[CHOOSE i \in DOMAIN row : row[i].key = col].value
    ELSE UndefinedValue

\* keys.forEach: if (!seen.has(key)) { seen.add(key); columns.push(key) }
RECURSIVE PushUnseen(_, _)
PushUnseen(columns, keys) ==
    IF keys = <<>> THEN columns
    ELSE PushUnseen(IF \E i \in DOMAIN columns : columns[i] = Head(keys)
                    THEN columns ELSE Append(columns, Head(keys)),
                    Tail(keys))

\* rows.forEach over Object.keys(row)
RECURSIVE CollectColumns(_, _)
CollectColumns(columns, rows) ==
    IF rows = <<>> THEN columns
    ELSE CollectColumns(PushUnseen(columns, ObjectKeys(Head(rows))), Tail(rows))

\* Array.prototype.join
RECURSIVE Join(_, _)
Join(parts, sep) ==
    IF parts = <<>> THEN <<>>
    ELSE IF Len(parts) = 1 THEN parts[1]
    ELSE parts[1] \o sep \o Join(Tail(parts), sep)

\* the lines of buildCsvPayload for the given columns
CsvLinesOf(columns, rows) ==
    <<Join([j \in DOMAIN columns |-> csvEscape(StringValue(columns[j]))], <<",">>)>>
        \o [i \in DOMAIN rows |->
               Join([j \in DOMAIN columns |-> csvEscape(Lookup(rows[i], columns[j]))],
                    <<",">>)]

\* buildCsvPayload gone wrong: the columns are the keys of the first row
buildCsvPayloadText_firstRow(rows) ==
    IF Len(rows) = 0 THEN <<>>
    ELSE Join(CsvLinesOf(ObjectKeys(rows[1]), rows), <<"\n">>) \o <<"\n">>

\* buildCsvPayload, character by character
buildCsvPayloadText(rows) ==
    IF Len(rows) = 0 THEN <<>>
    ELSE Join(CsvLinesOf(CollectColumns(<<>>, rows), rows), <<"\n">>) \o <<"\n">>

\* ---------------------------------------------------------- query summary

PREVIEW_ROW_LIMIT == 5

\* result.rows.slice(0, PREVIEW_ROW_LIMIT)
PreviewOf(rows) ==
    SubSeq(rows, 1, IF PREVIEW_ROW_LIMIT < Len(rows) THEN PREVIEW_ROW_LIMIT ELSE Len(rows))

\* buildSummary gone wrong: a key is added to the columns each time it is seen
buildQuerySummary_keysRepeated(result, requestedRows) ==
    [executedSql |-> result.executedSql,
     requestedSql |-> result.requestedSql,
     queryId |-> result.queryId,
     requestedRows |-> requestedRows,
     rowsReturned |-> Len(result.rows),
     limitAppliedInSql |-> result.limit.enforcedInSql,
     limitReason |-> result.limit.reason,
     columns |-> Join([i \in DOMAIN result.rows |-> ObjectKeys(result.rows[i])], <<>>),
     previewRows |-> PreviewOf(result.rows)]

\* buildSummary of the summary revision, which returns a QuerySummary; the
\* Set keeps the keys in the order they were first added
buildQuerySummary(result, requestedRows) ==
    [executedSql |-> result.executedSql,
     requestedSql |-> result.requestedSql,
     queryId |-> result.queryId,
     requestedRows |-> requestedRows,
     rowsReturned |-> Len(result.rows),
     limitAppliedInSql |-> result.limit.enforcedInSql,
     limitReason |-> result.limit.reason,
     columns |-> CollectColumns(<<>>, result.rows),
     previewRows |-> PreviewOf(result.rows)]

\* an ActionResult: the fields buildSummary reads
ActionResult(queryId, requestedSql, plan, cap, rows) ==
    [queryId |-> queryId, requestedSql |-> requestedSql, executedSql |-> plan.sql,
     rows |-> rows,
     limit |-> [requestedRows |-> cap, enforcedInSql |-> plan.applied,
                reason |-> plan.reason]]

NoQuerySummary ==
    [executedSql |-> <<>>, requestedSql |-> <<>>, queryId |-> <<>>,
     requestedRows |-> Num(0), rowsReturned |-> 0 - 1, limitAppliedInSql |-> FALSE,
     limitReason |-> "not-built", columns |-> <<>>, previewRows |-> <<>>]

\* ------------------------------------------------------------------ state

VARIABLES
    limiter,    \* a call of enforceSqlLimit: its arguments and its LimitPlan
    clamp,      \* a call of clampRows: its argument and its result
    naming,     \* two calls of buildPersistedPaths: query ids, file name, paths
    inputs,     \* a run of main: the revision, the action inputs, the environment
    pc,         \* where main is: start, the await it is suspended at, done
    locals,     \* main's local variables
    runSqlCalls,\* the statements handed to runSql
    console,    \* the calls of console.log, console.warn and console.error
    disk,       \* the target directory: whether it exists, and its files
    fsOps,      \* the filesystem calls that settled, each with its outcome
    outputs,    \* the calls of core.setOutput
    failed,     \* the calls of core.setFailed
    encoder,    \* a call of buildCsvPayload: its rows and its payload
    escaper,    \* a call of csvEscape: its value and the field it returns
    summarizer, \* a call of buildSummary: its result, its cap, its QuerySummary
    relimit     \* enforceSqlLimit called on a text and then on its own output

runVars == <<inputs, pc, locals, runSqlCalls, console, disk, fsOps, outputs, failed>>

callVars == <<encoder, escaper, summarizer, relimit>>

vars == <<limiter, clamp, naming, inputs, pc, locals, runSqlCalls, console, disk,
          fsOps, outputs, failed, encoder, escaper, summarizer, relimit>>

NoPlan == [sql |-> <<>>, applied |-> FALSE, reason |-> "not-called"]

\* no call of enforceSqlLimit is modelled
LimiterIdle ==
    limiter = [phase |-> "idle", frags |-> 0, sqlText |-> <<>>,
               maxRows |-> Num(DEFAULT_ROWS), plan |-> NoPlan]

\* no call of clampRows is modelled
ClampIdle ==
    clamp = [phase |-> "idle", rev |-> "persist", value |-> Undefined,
             result |-> Num(0)]

NoPaths == [csvPath |-> <<>>, metadataPath |-> <<>>]

\* no call of buildPersistedPaths is modelled
NamingIdle ==
    naming = [phase |-> "idle", idA |-> <<>>, idB |-> <<>>, filename |-> <<>>,
              pathsA |-> NoPaths, pathsB |-> NoPaths]

NoInputs ==
    [rev |-> "persist", sqlInput |-> <<>>, sqlEnv |-> Undefined,
     rowsInput |-> <<>>, rowsEnv |-> Undefined, logLevel |-> Undefined,
     persistInput |-> <<>>, persistEnv |-> Undefined,
     filenameInput |-> <<>>, filenameEnv |-> Undefined,
     resultDir |-> Undefined, runnerTemp |-> Undefined]

NoOptions == [enabled |-> FALSE, filename |-> <<>>, directory |-> Undefined]

NoOutput == [rows |-> <<>>, rowCount |-> 0 - 1, notice |-> NoNotice]

\* main's locals before main has run
NoLocals ==
    [sqlText |-> <<>>, maxRows |-> Num(0), limitPlan |-> NoPlan,
     persistence |-> NoOptions, settled |-> "pending", thrown |-> NoThrow,
     returned |-> 0, queryId |-> <<>>, output |-> NoOutput, summary |-> NoSummary,
     persistCalls |-> 0, resolvedDir |-> <<>>, paths |-> NoPaths,
     persistedCsv |-> <<>>, persistedMeta |-> <<>>]

NoDisk == [exists |-> FALSE, files |-> {}]

\* no run of main is modelled
MainIdle ==
    /\ inputs = NoInputs
    /\ pc = "idle"
    /\ locals = NoLocals
    /\ runSqlCalls = <<>>
    /\ console = <<>>
    /\ disk = NoDisk
    /\ fsOps = <<>>
    /\ outputs = <<>>
    /\ failed = <<>>

\* no call of buildCsvPayload is modelled
EncoderIdle == encoder = [phase |-> "idle", rows |-> <<>>, payload |-> <<>>]

\* no call of csvEscape is modelled
EscaperIdle == escaper = [phase |-> "idle", value |-> UndefinedValue, field |-> <<>>]

\* no call of the summary revision's buildSummary is modelled
SummarizerIdle ==
    summarizer = [phase |-> "idle",
                  result |-> ActionResult(<<>>, <<>>, NoPlan, Num(0), <<>>),
                  requestedRows |-> Num(0), summary |-> NoQuerySummary]

\* no repeated call of enforceSqlLimit is modelled
RelimitIdle ==
    relimit = [phase |-> "idle", frags |-> 0, sqlText |-> <<>>,
               maxRows |-> Num(DEFAULT_ROWS), first |-> NoPlan, second |-> NoPlan]

CallsIdle ==
    /\ EncoderIdle
    /\ EscaperIdle
    /\ SummarizerIdle
    /\ RelimitIdle

\* ------------------------------------------- specification of the limiter

\* how SQL texts begin: nothing, a row-producing statement in two spellings,
\* a DML statement
SqlHeads ==
    { <<>>,
      <<"S","e","l","e","c","t">>,
      <<"s","h","o","w">>,
      <<"i","n","s","e","r","t">> }

\* the pieces typed after the head
SqlFragments ==
    { <<"L","i","m","i","t"," ","1">>,
      <<" ">>, <<"\n">>, <<";">>, <<"(">>,
      <<"-","-">>, <<"/","*">>, <<"*","/">> }

RowCaps == { Num(DEFAULT_ROWS) }

LimitInit ==
    /\ \E h \in SqlHeads :
          limiter = [phase |-> "input", frags |-> 0, sqlText |-> h,
                     maxRows |-> Num(DEFAULT_ROWS), plan |-> NoPlan]
    /\ ClampIdle
    /\ NamingIdle
    /\ MainIdle
    /\ CallsIdle

\* one more fragment of the SQL text
TypeSql ==
    /\ limiter.phase = "input"
    /\ limiter.frags < MaxFrags
    /\ \E f \in SqlFragments :
          limiter' = [limiter EXCEPT !.frags = @ + 1, !.sqlText = @ \o f]
    /\ UNCHANGED <<clamp, naming, runVars, callVars>>

\* const limitPlan = enforceSqlLimit(sqlText, maxRows)
CallEnforceSqlLimit ==
    /\ limiter.phase = "input"
    /\ \E m \in RowCaps :
          limiter' = [limiter EXCEPT !.phase = "done", !.maxRows = m,
                                     !.plan = enforceSqlLimit(limiter.sqlText, m)]
    /\ UNCHANGED <<clamp, naming, runVars, callVars>>

LimitNext == TypeSql \/ CallEnforceSqlLimit

SpecLimit == LimitInit /\ [][LimitNext]_vars

\* -------------------------------------------- specification of clampRows

\* the characters return-rows texts are typed from: digits, a decimal point,
\* a sign, a letter
CapChars == {"0", "1", "5", ".", "-", "a"}

ClampInit ==
    /\ \E r \in Revisions :
          clamp = [phase |-> "input", rev |-> r, value |-> Undefined,
                   result |-> Num(0)]
    /\ LimiterIdle
    /\ NamingIdle
    /\ MainIdle
    /\ CallsIdle

\* one more character of the return-rows input or RUN_SQL_RETURN_ROWS
TypeCap ==
    /\ clamp.phase = "input"
    /\ Len(clamp.value.text) < MaxCapChars
    /\ \E c \in CapChars :
          clamp' = [clamp EXCEPT !.value = Str(clamp.value.text \o <<c>>)]
    /\ UNCHANGED <<limiter, naming, runVars, callVars>>

\* const maxRows = clampRows(...)
CallClampRows ==
    /\ clamp.phase = "input"
    /\ clamp' = [clamp EXCEPT !.phase = "done",
                              !.result = clampRows(clamp.rev, clamp.value)]
    /\ UNCHANGED <<limiter, naming, runVars, callVars>>

ClampNext == TypeCap \/ CallClampRows

SpecClamp == ClampInit /\ [][ClampNext]_vars

\* ---------------------------------- specification of buildPersistedPaths

\* the characters query identifiers are typed from: hexadecimal-like
\* characters, the segment separator, a character unsafe in file names
IdChars == {"a", "b", "-", "/"}

\* result-filename values: a name with an extension, one without, one whose
\* directory part path.parse drops
Filenames ==
    { <<"r",".","c","s","v">>, <<"r">>, <<"d","/","r",".","t","x","t">> }

\* the resolved target directory
BaseDir == <<"/","o","u","t">>

NamingInit ==
    /\ naming = [phase |-> "input", idA |-> <<>>, idB |-> <<>>, filename |-> <<>>,
                 pathsA |-> NoPaths, pathsB |-> NoPaths]
    /\ LimiterIdle
    /\ ClampIdle
    /\ MainIdle
    /\ CallsIdle

\* one more character of the first run's query identifier
TypeIdA ==
    /\ naming.phase = "input"
    /\ Len(naming.idA) < MaxIdLen
    /\ \E c \in IdChars : naming' = [naming EXCEPT !.idA = @ \o <<c>>]
    /\ UNCHANGED <<limiter, clamp, runVars, callVars>>

\* one more character of the second run's query identifier
TypeIdB ==
    /\ naming.phase = "input"
    /\ Len(naming.idB) < MaxIdLen
    /\ \E c \in IdChars : naming' = [naming EXCEPT !.idB = @ \o <<c>>]
    /\ UNCHANGED <<limiter, clamp, runVars, callVars>>

\* two runs call buildPersistedPaths with the same file name and directory
CallBuildPersistedPaths ==
    /\ naming.phase = "input"
    /\ \E f \in Filenames :
          naming' = [naming EXCEPT
                        !.phase = "done", !.filename = f,
                        !.pathsA = buildPersistedPaths(naming.idA, f, BaseDir),
                        !.pathsB = buildPersistedPaths(naming.idB, f, BaseDir)]
    /\ UNCHANGED <<limiter, clamp, runVars, callVars>>

NamingNext == TypeIdA \/ TypeIdB \/ CallBuildPersistedPaths

SpecNaming == NamingInit /\ [][NamingNext]_vars

\* ------------------------------------------------- specification of main

SqlInputs == { <<>>, <<"s","h","o","w">> }

SqlEnvs == { Undefined, Str(<<" ">>), Str(<<" ","i","n","s","e","r","t">>) }

RowsInputs == { <<>>, <<"2">> }

RowsEnvs == { Undefined, Str(<<"0",".","5">>) }

LogLevels == { Undefined, Str(<<"v","e","r","b","o","s","e">>) }

PersistInputs == { <<>>, <<"n">> }

PersistEnvs == { Undefined, Str(<<" ","T","R","U","E">>) }

FilenameInputs == { <<>>, <<"r",".","t","x","t">> }

ResultDirs == { Undefined, Str(<<"o","u","t">>) }

RunnerTemp == Str(<<"/","t">>)

QueryIds == { <<>>, <<"0","1","-","a","b">> }

RunSqlErrors == { ErrorOf("Incorrect username or password"), NonError }

\* a file a previous run left in the directory
StaleFile(dir) ==
    [path |-> pathJoin(dir, <<"o","l","d",".","c","s","v">>), body |-> OtherFile("old")]

\* the target directory before the run: absent, empty, or holding a stale file
DisksBefore(dir) ==
    { NoDisk, [exists |-> TRUE, files |-> {}],
      [exists |-> TRUE, files |-> {StaleFile(dir)}] }

\* the inputs of a run of the first revision, which knows no persistence
RunSqlInputs ==
    { [NoInputs EXCEPT !.rev = "runsql", !.sqlInput = si, !.sqlEnv = se,
                       !.rowsInput = ri, !.rowsEnv = re, !.logLevel = ll] :
        si \in SqlInputs, se \in SqlEnvs, ri \in RowsInputs, re \in RowsEnvs,
        ll \in LogLevels }

\* the inputs of a run of the persistence revision
PersistInputSets ==
    { [in EXCEPT !.rev = "persist", !.persistInput = pi, !.persistEnv = pe,
                 !.filenameInput = fi, !.resultDir = rd, !.runnerTemp = RunnerTemp] :
        in \in RunSqlInputs, pi \in PersistInputs, pe \in PersistEnvs,
        fi \in FilenameInputs, rd \in ResultDirs }

MainInit ==
    /\ inputs \in RunSqlInputs \cup PersistInputSets
    /\ pc = "start"
    /\ locals = NoLocals
    /\ runSqlCalls = <<>>
    /\ console = <<>>
    /\ disk \in IF inputs.rev = "persist"
                THEN DisksBefore(ResolvedDir(resolvePersistenceOptions(inputs), inputs))
                ELSE {NoDisk}
    /\ fsOps = <<>>
    /\ outputs = <<>>
    /\ failed = <<>>
    /\ LimiterIdle
    /\ ClampIdle
    /\ NamingIdle
    /\ CallsIdle

\* normalizeLogLevel(process.env.SNOWFLAKE_LOG_LEVEL) = 'VERBOSE'
Verbose ==
    inputs.logLevel.defined
        /\ toUpperCase(inputs.logLevel.text) = <<"V","E","R","B","O","S","E">>

\* the catch block of main
MainCatch(err) ==
    /\ console' = console \o CatchLogs(err)
    /\ failed' = Append(failed, FailureMessage(err))
    /\ pc' = "done"

\* main from its first line to the call of runSql
MainStart ==
    /\ pc = "start"
    /\ LET sel == SqlTextOf(inputs.rev, inputs.sqlInput, inputs.sqlEnv)
           cap == clampRows(inputs.rev, OrElse(Str(inputs.rowsInput), inputs.rowsEnv))
           plan == IF inputs.rev = "persist" THEN enforceSqlLimit(sel.text, cap)
                   ELSE [sql |-> sel.text, applied |-> FALSE, reason |-> "no-limiter"]
           persistence == IF inputs.rev = "persist"
                          THEN resolvePersistenceOptions(inputs) ELSE NoOptions
       IN  IF sel.threw
           THEN /\ MainCatch(ErrorOf(MissingSqlMessage))
                /\ UNCHANGED <<locals, runSqlCalls>>
           ELSE /\ locals' = [locals EXCEPT !.sqlText = sel.text, !.maxRows = cap,
                                            !.limitPlan = plan,
                                            !.persistence = persistence]
                /\ console' = console \o
                      (IF ~Verbose THEN <<>>
                       ELSE IF inputs.rev = "persist"
                       THEN <<Log("log", "[VERBOSE] SQL", <<>>),
                              Log("log", "[VERBOSE] Executed SQL", <<>>),
                              Log("log", "[VERBOSE] Return rows", <<>>),
                              Log("log", "[VERBOSE] LIMIT applied in SQL", <<>>)>>
                       ELSE <<Log("log", "[VERBOSE] SQL", <<>>),
                              Log("log", "[VERBOSE] Return rows", <<>>)>>)
                /\ runSqlCalls' = Append(runSqlCalls, plan.sql)
                /\ pc' = "runSql"
                /\ UNCHANGED failed
    /\ UNCHANGED <<inputs, disk, fsOps, outputs, limiter, clamp, naming, callVars>>

\* core.setOutput('result-file', ...); core.setOutput('result-metadata-file', ...)
SetFileOutputs(csv, meta) ==
    outputs' = outputs \o <<[name |-> "result-file", value |-> csv],
                            [name |-> "result-metadata-file", value |-> meta]>>

\* runSql resolves with n rows: truncation, output, summary, and then the
\* call of persistResults up to fs.rm, or the printed rows and the outputs
RunSqlResolves ==
    /\ pc = "runSql"
    /\ \E n \in 0..MaxResultRows, q \in QueryIds :
          LET rows == [i \in 1..n |-> i]
              out == OutputOf(rows, locals.maxRows)
              summary == buildSummary(q, locals.sqlText, locals.limitPlan,
                                      locals.maxRows, out)
              dir == ResolvedDir(locals.persistence, inputs)
              csvOutput == buildCsvPayload(out.rows)
              ran == [locals EXCEPT !.settled = "resolved", !.returned = n,
                                    !.queryId = q, !.output = out]
          IN  IF inputs.rev = "runsql"
              THEN /\ locals' = ran
                   /\ console' = console \o
                         <<Log("log", "Snowflake query succeeded", <<>>),
                           Log("log", "output", out.rows)>>
                   /\ pc' = "done"
                   /\ UNCHANGED outputs
              ELSE IF locals.persistence.enabled
              THEN /\ locals' = [ran EXCEPT
                         !.summary = summary,
                         !.persistCalls = @ + 1,
                         !.resolvedDir = dir,
                         !.paths = buildPersistedPaths(q, locals.persistence.filename, dir)]
                   /\ console' = console \o
                         <<Log("log", "Snowflake query succeeded", <<>>),
                           Log("log", "Summary:", <<>>)>>
                   /\ pc' = "rm"
                   /\ UNCHANGED outputs
              ELSE /\ locals' = [ran EXCEPT !.summary = summary]
                   /\ console' = console \o
                         <<Log("log", "Snowflake query succeeded", <<>>),
                           Log("log", "Summary:", <<>>)>> \o
                         (IF csvOutput # <<>>
                          THEN <<Log("log", "Rows (CSV):", <<>>),
                                 Log("log", "csvOutput", csvOutput)>>
                          ELSE <<Log("log", "Rows (CSV): [no rows returned]", <<>>)>>)
                   /\ SetFileOutputs(<<>>, <<>>)
                   /\ pc' = "done"
    /\ UNCHANGED <<inputs, runSqlCalls, disk, fsOps, failed, limiter, clamp, naming, callVars>>

\* runSql rejects: the catch block of main
RunSqlRejects ==
    /\ pc = "runSql"
    /\ \E err \in RunSqlErrors :
          /\ locals' = [locals EXCEPT !.settled = "rejected", !.thrown = err]
          /\ MainCatch(err)
    /\ UNCHANGED <<inputs, runSqlCalls, disk, fsOps, outputs, limiter, clamp, naming, callVars>>

FsOp(op, path, ok) == [op |-> op, path |-> path, ok |-> ok]

\* fs.rm(resolvedDir, { recursive: true, force: true }) resolves: the
\* directory and all it held are gone; fs.mkdir is called
RmResolves ==
    /\ pc = "rm"
    /\ disk' = NoDisk
    /\ fsOps' = Append(fsOps, FsOp("rm", locals.resolvedDir, TRUE))
    /\ pc' = "mkdir"
    /\ UNCHANGED <<inputs, locals, runSqlCalls, console, outputs, failed,
                   limiter, clamp, naming, callVars>>

\* fs.rm rejects, having removed some of the files or none, and
\* .catch(() => undefined) swallows the rejection; fs.mkdir is called
RmRejects ==
    /\ pc = "rm"
    /\ \E kept \in SUBSET disk.files : disk' = [disk EXCEPT !.files = kept]
    /\ fsOps' = Append(fsOps, FsOp("rm", locals.resolvedDir, FALSE))
    /\ pc' = "mkdir"
    /\ UNCHANGED <<inputs, locals, runSqlCalls, console, outputs, failed,
                   limiter, clamp, naming, callVars>>

\* fs.mkdir(resolvedDir, { recursive: true }) resolves; writeRowsToCsv
\* builds the payload and calls fs.writeFile
MkdirResolves ==
    /\ pc = "mkdir"
    /\ disk' = [disk EXCEPT !.exists = TRUE]
    /\ fsOps' = Append(fsOps, FsOp("mkdir", locals.resolvedDir, TRUE))
    /\ pc' = "writeCsv"
    /\ UNCHANGED <<inputs, locals, runSqlCalls, console, outputs, failed,
                   limiter, clamp, naming, callVars>>

\* the inner catch gone wrong: the rows are printed when persisting fails
PersistRejected_printsRows ==
    /\ console' = console \o
          <<Log("warn", "Failed to persist result file:", <<>>),
            Log("log", "Rows (CSV):", <<>>),
            Log("log", "csvOutput", buildCsvPayload(locals.output.rows))>>
    /\ SetFileOutputs(locals.persistedCsv, locals.persistedMeta)
    /\ pc' = "done"

\* the inner catch gone wrong: result-file names the CSV path although
\* persistResults did not return
PersistRejected_namesCsv ==
    /\ console' = Append(console, Log("warn", "Failed to persist result file:", <<>>))
    /\ SetFileOutputs(locals.paths.csvPath, locals.persistedMeta)
    /\ pc' = "done"

\* persistResults rejects: the inner catch of main warns, and main goes on
\* to set both outputs to what persistedCsv and persistedMeta hold
PersistRejected ==
    /\ console' = Append(console, Log("warn", "Failed to persist result file:", <<>>))
    /\ SetFileOutputs(locals.persistedCsv, locals.persistedMeta)
    /\ pc' = "done"

\* fs.mkdir rejects
MkdirRejects ==
    /\ pc = "mkdir"
    /\ fsOps' = Append(fsOps, FsOp("mkdir", locals.resolvedDir, FALSE))
    /\ PersistRejected
    /\ UNCHANGED <<inputs, locals, runSqlCalls, disk, failed, limiter, clamp, naming, callVars>>

\* fs.writeFile(destination, payload) resolves; the metadata is built and
\* fs.writeFile is called for it
WriteCsvResolves ==
    /\ pc = "writeCsv"
    /\ disk' = [disk EXCEPT !.files =
                   WithFile(@, locals.paths.csvPath,
                            CsvFile(buildCsvPayload(locals.output.rows)))]
    /\ fsOps' = Append(fsOps, FsOp("writeFile", locals.paths.csvPath, TRUE))
    /\ pc' = "writeMeta"
    /\ UNCHANGED <<inputs, locals, runSqlCalls, console, outputs, failed,
                   limiter, clamp, naming, callVars>>

\* fs.writeFile of the CSV rejects, leaving no file or one cut short
WriteCsvRejects ==
    /\ pc = "writeCsv"
    /\ \/ UNCHANGED disk
       \/ disk' = [disk EXCEPT !.files =
                      WithFile(@, locals.paths.csvPath, OtherFile("partial"))]
    /\ fsOps' = Append(fsOps, FsOp("writeFile", locals.paths.csvPath, FALSE))
    /\ PersistRejected
    /\ UNCHANGED <<inputs, locals, runSqlCalls, failed, limiter, clamp, naming, callVars>>

\* fs.writeFile of the metadata resolves: persistResults returns its paths,
\* main logs them and sets the outputs
WriteMetaResolves ==
    /\ pc = "writeMeta"
    /\ disk' = [disk EXCEPT !.files =
                   WithFile(@, locals.paths.metadataPath,
                            MetaFile(locals.queryId, locals.sqlText,
                                     locals.limitPlan.sql, Len(locals.output.rows)))]
    /\ fsOps' = Append(fsOps, FsOp("writeFile", locals.paths.metadataPath, TRUE))
    /\ locals' = [locals EXCEPT !.persistedCsv = locals.paths.csvPath,
                                !.persistedMeta = locals.paths.metadataPath]
    /\ console' = console \o
          <<Log("log", "Full row set written to", <<>>),
            Log("log", "Result metadata written to", <<>>)>>
    /\ SetFileOutputs(locals.paths.csvPath, locals.paths.metadataPath)
    /\ pc' = "done"
    /\ UNCHANGED <<inputs, runSqlCalls, failed, limiter, clamp, naming, callVars>>

\* fs.writeFile of the metadata rejects, leaving no file or one cut short
WriteMetaRejects ==
    /\ pc = "writeMeta"
    /\ \/ UNCHANGED disk
       \/ disk' = [disk EXCEPT !.files =
                      WithFile(@, locals.paths.metadataPath, OtherFile("partial"))]
    /\ fsOps' = Append(fsOps, FsOp("writeFile", locals.paths.metadataPath, FALSE))
    /\ PersistRejected
    /\ UNCHANGED <<inputs, locals, runSqlCalls, failed, limiter, clamp, naming, callVars>>

Next ==
    \/ MainStart
    \/ RunSqlResolves
    \/ RunSqlRejects
    \/ RmResolves
    \/ RmRejects
    \/ MkdirResolves
    \/ MkdirRejects
    \/ WriteCsvResolves
    \/ WriteCsvRejects
    \/ WriteMetaResolves
    \/ WriteMetaRejects

Init == MainInit

Spec == Init /\ [][Next]_vars

\* ----------------------------------------- specification of buildCsvPayload

\* column names: a plain one, and one that holds a comma
CsvKeys == { <<"a">>, <<"b",",">> }

\* cell values: null, a number, a string with a comma, a quote and a newline
CsvValues ==
    { NullValue, NumberValue(Num(1)), StringValue(<<"x", ",", "\"", "\n">>) }

CsvInit ==
    /\ encoder = [phase |-> "input", rows |-> <<>>, payload |-> <<>>]
    /\ LimiterIdle
    /\ ClampIdle
    /\ NamingIdle
    /\ MainIdle
    /\ EscaperIdle
    /\ SummarizerIdle
    /\ RelimitIdle

\* one more row, with no field yet
AddRow ==
    /\ encoder.phase = "input"
    /\ Len(encoder.rows) < MaxCsvRows
    /\ encoder' = [encoder EXCEPT !.rows = Append(@, <<>>)]
    /\ UNCHANGED <<limiter, clamp, naming, runVars, escaper, summarizer, relimit>>

\* one more field of the last row, under a key the row does not have yet
AddField ==
    /\ encoder.phase = "input"
    /\ encoder.rows # <<>>
    /\ LET last == Len(encoder.rows)
       IN  \E k \in CsvKeys \ Range(ObjectKeys(encoder.rows[last])), v \in CsvValues :
              encoder' = [encoder EXCEPT
                             !.rows[last] = Append(@, [key |-> k, value |-> v])]
    /\ UNCHANGED <<limiter, clamp, naming, runVars, escaper, summarizer, relimit>>

\* const payload = buildCsvPayload(rows)
CallBuildCsvPayload ==
    /\ encoder.phase = "input"
    /\ encoder' = [encoder EXCEPT !.phase = "done",
                                  !.payload = buildCsvPayloadText(encoder.rows)]
    /\ UNCHANGED <<limiter, clamp, naming, runVars, escaper, summarizer, relimit>>

CsvNext == AddRow \/ AddField \/ CallBuildCsvPayload

SpecCsv == CsvInit /\ [][CsvNext]_vars

\* ----------------------------------------------- specification of csvEscape

\* the characters string values are typed from
ValueChars == { "x", ",", "\"", "\n", "\r" }

\* the values that are not typed: null, undefined, numbers, Dates; and the
\* empty string and the array holding it, which are typed further
ValueSeeds ==
    { NullValue, UndefinedValue, NumberValue(Num(7)), NumberValue([n |-> 15, d |-> 10]),
      DateValue(0), DateValue(42), StringValue(<<>>), ArrayValue(<<>>) }

EscapeInit ==
    /\ \E v \in ValueSeeds : escaper = [phase |-> "input", value |-> v, field |-> <<>>]
    /\ LimiterIdle
    /\ ClampIdle
    /\ NamingIdle
    /\ MainIdle
    /\ EncoderIdle
    /\ SummarizerIdle
    /\ RelimitIdle

\* one more character of a string, or of the string an array holds
TypeValue ==
    /\ escaper.phase = "input"
    /\ escaper.value.kind \in {"string", "array"}
    /\ Len(escaper.value.text) < MaxValueLen
    /\ \E c \in ValueChars :
          escaper' = [escaper EXCEPT !.value.text = Append(@, c)]
    /\ UNCHANGED <<limiter, clamp, naming, runVars, encoder, summarizer, relimit>>

\* csvEscape(value)
CallCsvEscape ==
    /\ escaper.phase = "input"
    /\ escaper' = [escaper EXCEPT !.phase = "done",
                                  !.field = csvEscape(escaper.value)]
    /\ UNCHANGED <<limiter, clamp, naming, runVars, encoder, summarizer, relimit>>

EscapeNext == TypeValue \/ CallCsvEscape

SpecEscape == EscapeInit /\ [][EscapeNext]_vars

\* --------------------- specification of buildSummary (summary revision)

\* the rows of a result: one with no key, the row of the default query's
\* shape, one with two keys of which the second is the other rows' first
RowShapes ==
    { <<>>,
      << [key |-> <<"a">>, value |-> StringValue(<<"A","L","I","C","E">>)] >>,
      << [key |-> <<"b",",">>, value |-> NumberValue(Num(1))],
         [key |-> <<"a">>, value |-> NullValue] >> }

\* the statements the summarised runs were given
SummarySqls == { <<"s","h","o","w">>, <<"i","n","s","e","r","t">> }

\* main up to the call of buildSummary, runSql having resolved with no row yet
SummaryInit ==
    /\ \E q \in QueryIds, s \in SummarySqls, cap \in RowCaps :
          summarizer = [phase |-> "input",
                        result |-> ActionResult(q, s, enforceSqlLimit(s, cap), cap, <<>>),
                        requestedRows |-> cap,
                        summary |-> NoQuerySummary]
    /\ LimiterIdle
    /\ ClampIdle
    /\ NamingIdle
    /\ MainIdle
    /\ EncoderIdle
    /\ EscaperIdle
    /\ RelimitIdle

\* one more row of the truncated result
AddResultRow ==
    /\ summarizer.phase = "input"
    /\ Len(summarizer.result.rows) < MaxSummaryRows
    /\ \E row \in RowShapes :
          summarizer' = [summarizer EXCEPT !.result.rows = Append(@, row)]
    /\ UNCHANGED <<limiter, clamp, naming, runVars, encoder, escaper, relimit>>

\* const summary = buildSummary(output, maxRows)
CallBuildSummary ==
    /\ summarizer.phase = "input"
    /\ summarizer' = [summarizer EXCEPT
                         !.phase = "done",
                         !.summary = buildQuerySummary(summarizer.result,
                                                       summarizer.requestedRows)]
    /\ UNCHANGED <<limiter, clamp, naming, runVars, encoder, escaper, relimit>>

SummaryNext == AddResultRow \/ CallBuildSummary

SpecSummary == SummaryInit /\ [][SummaryNext]_vars

\* ------------------------- specification of the limiter applied twice

RelimitInit ==
    /\ \E h \in SqlHeads :
          relimit = [phase |-> "input", frags |-> 0, sqlText |-> h,
                     maxRows |-> Num(DEFAULT_ROWS), first |-> NoPlan, second |-> NoPlan]
    /\ LimiterIdle
    /\ ClampIdle
    /\ NamingIdle
    /\ MainIdle
    /\ EncoderIdle
    /\ EscaperIdle
    /\ SummarizerIdle

\* one more fragment of the SQL text
TypeSqlToRelimit ==
    /\ relimit.phase = "input"
    /\ relimit.frags < MaxReFrags
    /\ \E f \in SqlFragments :
          relimit' = [relimit EXCEPT !.frags = @ + 1, !.sqlText = @ \o f]
    /\ UNCHANGED <<limiter, clamp, naming, runVars, encoder, escaper, summarizer>>

\* p = enforceSqlLimit(s, m)
CallEnforceSqlLimitFirst ==
    /\ relimit.phase = "input"
    /\ \E m \in RowCaps :
          relimit' = [relimit EXCEPT !.phase = "once", !.maxRows = m,
                                     !.first = enforceSqlLimit(relimit.sqlText, m)]
    /\ UNCHANGED <<limiter, clamp, naming, runVars, encoder, escaper, summarizer>>

\* enforceSqlLimit(p.sql, m)
CallEnforceSqlLimitAgain ==
    /\ relimit.phase = "once"
    /\ relimit' = [relimit EXCEPT
                      !.phase = "twice",
                      !.second = enforceSqlLimit(relimit.first.sql, relimit.maxRows)]
    /\ UNCHANGED <<limiter, clamp, naming, runVars, encoder, escaper, summarizer>>

RelimitNext ==
    TypeSqlToRelimit \/ CallEnforceSqlLimitFirst \/ CallEnforceSqlLimitAgain

SpecRelimit == RelimitInit /\ [][RelimitNext]_vars

\* ------------------------------------------------- claims on the limiter

LimiterDone == limiter.phase = "done"

\* the trimmed SQL text the limiter was called with
Trimmed == trim(limiter.sqlText)

RECURSIVE CommentMask(_, _, _)
\* SQL's own lexing of s from index i on, read left to right: TRUE at the
\* characters of a line comment (-- to the end of the line) or of a block
\* comment (/* to the next */), FALSE elsewhere
CommentMask(s, i, mode) ==
    IF i > Len(s) THEN <<>>
    ELSE IF mode = "line"
    THEN IF IsLineTerminator(s[i])
         THEN <<FALSE>> \o CommentMask(s, i + 1, "code")
         ELSE <<TRUE>> \o CommentMask(s, i + 1, "line")
    ELSE IF mode = "block"
    THEN IF i < Len(s) /\ s[i] = "*" /\ s[i + 1] = "/"
         THEN <<TRUE, TRUE>> \o CommentMask(s, i + 2, "code")
         ELSE <<TRUE>> \o CommentMask(s, i + 1, "block")
    ELSE IF i < Len(s) /\ s[i] = "-" /\ s[i + 1] = "-"
    THEN <<TRUE, TRUE>> \o CommentMask(s, i + 2, "line")
    ELSE IF i < Len(s) /\ s[i] = "/" /\ s[i + 1] = "*"
    THEN <<TRUE, TRUE>> \o CommentMask(s, i + 2, "block")
    ELSE <<FALSE>> \o CommentMask(s, i + 1, "code")

\* s holds a `LIMIT <number>` clause all of whose characters lie outside comments
LimitOutsideComments(s) ==
    LET mask == CommentMask(s, 1, "code")
    IN  \E i \in 1..Len(s) : \E j \in (i + 6)..Len(s) :
            LimitMatchAt(s, i, j) /\ \A k \in i..j : ~mask[k]

\* C1: a non-empty SQL text that holds a LIMIT <number> clause outside of its
\* comments is returned trimmed and unchanged, with applied = false, for
\* every row cap: no second limit is injected after the caller's own.
C1_ExplicitLimitNeverDoubled ==
    (LimiterDone /\ Trimmed # <<>> /\ LimitOutsideComments(Trimmed))
        => (limiter.plan.applied = FALSE /\ limiter.plan.sql = Trimmed)

\* the limiter's step 3 did not fire: no LIMIT <number> in the comment-stripped view
NoLimitDetected == ~HasLimitClause(stripSqlComments(Trimmed))

SelectWord == <<"S","E","L","E","C","T">>

ClaimedBody(t) ==
    LET keep == { i \in 1..Len(t) : t[i] # ";" /\ ~IsSpace(t[i]) }
    IN  IF keep = {} THEN <<>>
        ELSE SubSeq(t, 1, CHOOSE i \in keep : \A k \in keep : k <= i)

NamingDone == naming.phase = "done"

\* the suffix the file names take from a query identifier: its last
\* "-"-delimited segment ("result" when that is empty), with every character
\* outside [A-Za-z0-9._-] replaced by "-"
SafeIdOf(queryId) == sanitizeForFilename(IdToken(queryId))

\* C4 as stated: for the same base filename and directory, two distinct
\* query identifiers get distinct CSV paths and distinct metadata paths.
C4_DistinctIdsDistinctPaths ==
    (NamingDone /\ naming.idA # naming.idB)
        => /\ naming.pathsA.csvPath # naming.pathsB.csvPath
           /\ naming.pathsA.metadataPath # naming.pathsB.metadataPath

\* C4 as amended: for the same base filename and directory, two query
\* identifiers get the same CSV path, and the same metadata path, exactly
\* when their safe last segments are equal; so identifiers that differ in
\* that segment never collide, and the same identifier maps to the same pair.
C4_PathsDistinctIffLastSegmentDistinct ==
    NamingDone
        => /\ (naming.pathsA.csvPath = naming.pathsB.csvPath)
                  <=> (SafeIdOf(naming.idA) = SafeIdOf(naming.idB))
           /\ (naming.pathsA.metadataPath = naming.pathsB.metadataPath)
                  <=> (SafeIdOf(naming.idA) = SafeIdOf(naming.idB))
           /\ naming.pathsA.csvPath # naming.pathsA.metadataPath

\* C4's case: two identifiers of the shape abc-123 / xyz-123, with different
\* first segments and the same last one, were given their paths
C4_Witness ==
    /\ NamingDone
    /\ naming.idA = <<"a","-","b">>
    /\ naming.idB = <<"b","-","b">>
    /\ naming.pathsA.csvPath = naming.pathsB.csvPath

\* ------------------------------------------------- claims on the row cap

ClampDone == clamp.phase = "done"

\* the number the requested cap denotes
RequestedCap == StringToNumber(IF clamp.value.defined THEN clamp.value.text ELSE <<>>)

NumEq(x, y) == x.d > 0 /\ y.d > 0 /\ x.n * y.d = y.n * x.d

\* C10: clampRows returns the default 100 when the requested cap is missing,
\* non-numeric, zero or negative; the maximum when the cap exceeds it; the
\* cap unchanged when it lies in 1..maximum; so the effective row cap is
\* always a whole number in 1..maximum (1000 or 10000 by revision).
C10_ClampRowsInRange ==
    ClampDone =>
        LET raw == RequestedCap
            top == Num(MaxRowsOf(clamp.rev))
        IN  /\ (~clamp.value.defined \/ isNaN(raw) \/ NumLE(raw, Num(0)))
                  => NumEq(clamp.result, Num(100))
            /\ (~isNaN(raw) /\ NumLT(top, raw)) => NumEq(clamp.result, top)
            /\ (~isNaN(raw) /\ NumLE(Num(1), raw) /\ NumLE(raw, top))
                  => NumEq(clamp.result, raw)
            /\ IsInteger(clamp.result)
            /\ NumLE(Num(1), clamp.result)
            /\ NumLE(clamp.result, top)

\* ---------------------------------------------------- claims on main's run

\* persistResults returned its paths: the four filesystem calls were made
\* and the last of them, the metadata write, resolved
PersistReturned ==
    /\ pc = "done"
    /\ Len(fsOps) = 4
    /\ fsOps[4].ok

StepFailed == \E i \in DOMAIN fsOps : ~fsOps[i].ok

Warnings == { i \in DOMAIN console : console[i].level = "warn" }

EmptyFileOutputs ==
    <<[name |-> "result-file", value |-> <<>>],
      [name |-> "result-metadata-file", value |-> <<>>]>>

\* C5: after a run in which persistResults returned its paths, the target
\* directory holds exactly the CSV file and the metadata file of that run and
\* nothing it held before, whatever it held and however the remove step ended.
C5_DirectoryHoldsOnlyThisRun ==
    PersistReturned
        => disk.files =
              { [path |-> locals.paths.csvPath,
                 body |-> CsvFile(buildCsvPayload(locals.output.rows))],
                [path |-> locals.paths.metadataPath,
                 body |-> MetaFile(locals.queryId, locals.sqlText,
                                   locals.limitPlan.sql, locals.output.rowCount)] }

\* C6: when the query succeeded and persistence is enabled, a failure of any
\* persistence step (remove, mkdir, CSV write, metadata write) is handled
\* once: one warning, persistResults called once, both file outputs set to
\* the empty string, and setFailed never called.
C6_PersistFailureWarnsOnce ==
    (pc = "done" /\ locals.settled = "resolved" /\ locals.persistence.enabled
        /\ StepFailed)
        => /\ Cardinality(Warnings) = 1
           /\ locals.persistCalls = 1
           /\ outputs = EmptyFileOutputs
           /\ failed = <<>>

\* what is logged only after runSql resolved: the summary and the rows
ResultTags ==
    { "Snowflake query succeeded", "Summary:", "output", "Rows (CSV):", "csvOutput",
      "Rows (CSV): [no rows returned]" }

\* C7: when runSql fails, the run is marked failed with the error's message
\* (the generic message for a value that is not an Error), and no summary is
\* built, no rows are printed, persistResults is not called and touches no
\* file or directory, and no output is set.
C7_RunSqlFailureFailsRun ==
    locals.settled = "rejected"
        => /\ pc = "done"
           /\ failed = << IF locals.thrown.isError THEN locals.thrown.message
                          ELSE "Unknown error when running SQL" >>
           /\ locals.summary = NoSummary
           /\ \A i \in DOMAIN console : console[i].tag \notin ResultTags
           /\ locals.persistCalls = 0
           /\ fsOps = <<>>
           /\ outputs = <<>>

\* C7's case: runSql rejected with an Error in a run that was to persist
C7_Witness ==
    /\ locals.settled = "rejected"
    /\ locals.thrown.isError
    /\ locals.persistence.enabled
    /\ failed # <<>>

EnvSqlText == IF inputs.sqlEnv.defined THEN trim(inputs.sqlEnv.text) ELSE <<>>

\* C8: when neither the sql input nor RUN_SQL_STATEMENT has text left after
\* trimming, the run fails before runSql is called and before any filesystem
\* call, and no default query is run; when only the input is blank, the
\* trimmed RUN_SQL_STATEMENT is the statement used.
C8_MissingSqlFailsBeforeRunSql ==
    pc # "start"
        => /\ (trim(inputs.sqlInput) = <<>> /\ EnvSqlText = <<>>)
                 => /\ Len(failed) = 1
                    /\ runSqlCalls = <<>>
                    /\ fsOps = <<>>
           /\ (trim(inputs.sqlInput) = <<>> /\ EnvSqlText # <<>>)
                 => locals.sqlText = EnvSqlText

MinNum(x, y) == IF NumLE(x, y) THEN x ELSE y

\* the rows runSql returned, in order
ReturnedRows == [i \in 1..locals.returned |-> i]

\* C9: the rows emitted, summarised, printed or persisted are the first
\* min(n, maxRows) of the n rows runSql returned, in order; rowCount is that
\* number; and the truncation notice is present exactly when n > maxRows.
C9_EmitsFirstMinRows ==
    locals.settled = "resolved"
        => LET n == locals.returned
               shown == locals.output.rows
           IN  /\ NumEq(Num(Len(shown)), MinNum(Num(n), locals.maxRows))
               /\ shown = SubSeq(ReturnedRows, 1, Len(shown))
               /\ locals.output.rowCount = Len(shown)
               /\ locals.output.notice.present <=> NumLT(locals.maxRows, Num(n))
               /\ inputs.rev = "persist" => locals.summary.rowCount = Len(shown)
               /\ \A i \in DOMAIN console :
                     /\ console[i].tag = "output" => console[i].rows = shown
                     /\ console[i].tag = "csvOutput"
                           => console[i].rows = buildCsvPayload(shown)
               /\ \A f \in disk.files :
                     f.body.kind = "csv" => f.body.lines = buildCsvPayload(shown)

\* ------------------------------------------------- claims on the CSV text

\* a reader of CSV text: a record ends at a newline outside quotes, a field
\* at a comma outside quotes; a field that opens with a quote runs to its
\* closing quote, and two quotes inside it stand for one
RECURSIVE ReadCsv(_, _, _, _, _, _)
ReadCsv(s, i, quoted, field, record, records) ==
    IF i > Len(s)
    THEN IF field = <<>> /\ record = <<>> THEN records
         ELSE Append(records, Append(record, field))
    ELSE IF quoted
    THEN IF s[i] # "\"" THEN ReadCsv(s, i + 1, TRUE, Append(field, s[i]), record, records)
         ELSE IF i < Len(s) /\ s[i + 1] = "\""
         THEN ReadCsv(s, i + 2, TRUE, Append(field, "\""), record, records)
         ELSE ReadCsv(s, i + 1, FALSE, field, record, records)
    ELSE IF s[i] = "\"" /\ field = <<>>
    THEN ReadCsv(s, i + 1, TRUE, field, record, records)
    ELSE IF s[i] = ","
    THEN ReadCsv(s, i + 1, FALSE, <<>>, Append(record, field), records)
    ELSE IF s[i] = "\n"
    THEN ReadCsv(s, i + 1, FALSE, <<>>, <<>>, Append(records, Append(record, field)))
    ELSE ReadCsv(s, i + 1, FALSE, Append(field, s[i]), record, records)

RecordsOf(text) == ReadCsv(text, 1, FALSE, <<>>, <<>>, <<>>)

\* what a reader sees of a line of the given fields: a line of no field
\* reads as one empty field
AsRead(fields) == IF fields = <<>> THEN << <<>> >> ELSE fields

\* the text of a cell: empty for null and undefined, else the value as a string
CellText(value) ==
    IF value.kind \in {"null", "undefined"} THEN <<>> ELSE StringOf(value)

EncoderDone == encoder.phase = "done"

\* where a key is first seen: the first row that has it, and its place there
FirstRowWith(rows, k) ==
    CHOOSE i \in DOMAIN rows :
        /\ k \in Range(ObjectKeys(rows[i]))
        /\ \A h \in 1..(i - 1) : k \notin Range(ObjectKeys(rows[h]))

PlaceIn(row, k) == CHOOSE j \in DOMAIN row : row[j].key = k

SeenBefore(rows, k, l) ==
    \/ FirstRowWith(rows, k) < FirstRowWith(rows, l)
    \/ /\ FirstRowWith(rows, k) = FirstRowWith(rows, l)
       /\ PlaceIn(rows[FirstRowWith(rows, k)], k) < PlaceIn(rows[FirstRowWith(rows, l)], l)

\* columns is the union of the rows' keys, each once, in first-seen order
IsFirstSeenOrder(columns, rows) ==
    /\ Range(columns) = UNION { Range(ObjectKeys(rows[i])) : i \in DOMAIN rows }
    /\ \A i, j \in DOMAIN columns : i < j => columns[i] # columns[j]
    /\ \A i, j \in DOMAIN columns : i < j => SeenBefore(rows, columns[i], columns[j])

\* C11: buildCsvPayload of no rows is the empty string; of rows, it is a
\* header line of the rows' keys in first-seen order, then one line per row
\* in row order, its fields in column order and empty where the row lacks
\* the column, every line ended by a newline.
C11_CsvHeaderThenOneLinePerRow ==
    EncoderDone =>
        LET rows == encoder.rows
            text == encoder.payload
            records == RecordsOf(text)
        IN  IF rows = <<>> THEN text = <<>>
            ELSE \E columns \in UNION { [1..n -> CsvKeys] : n \in 0..Cardinality(CsvKeys) } :
                    /\ IsFirstSeenOrder(columns, rows)
                    /\ text[Len(text)] = "\n"
                    /\ Len(records) = 1 + Len(rows)
                    /\ records[1] = AsRead(columns)
                    /\ \A i \in DOMAIN rows :
                          records[1 + i] =
                              AsRead([j \in DOMAIN columns |->
                                         CellText(Lookup(rows[i], columns[j]))])

\* C11's case: two rows, the second with a key the first lacks and without
\* a key the first has, were encoded
C11_Witness ==
    /\ EncoderDone
    /\ Len(encoder.rows) = 2
    /\ ObjectKeys(encoder.rows[1]) = << <<"a">> >>
    /\ ObjectKeys(encoder.rows[2]) = << <<"b",",">> >>
    /\ encoder.payload # <<>>

EscaperDone == escaper.phase = "done"

\* C12: csvEscape gives the empty string for null and undefined; a value
\* whose string holds a quote, a comma or a newline is wrapped in quotes
\* with each of its quotes doubled; so a reader of the field gets the
\* value's string back as one field of one record.
C12_EscapedFieldReadsBack ==
    EscaperDone =>
        LET value == escaper.value
            out == escaper.field
            str == StringOf(value)
        IN  IF value.kind \in {"null", "undefined"} THEN out = <<>>
            ELSE /\ (\E i \in DOMAIN str : str[i] \in {"\"", ",", "\n"})
                       => /\ Len(out) = 2 + Len(str)
                                        + Cardinality({ i \in DOMAIN str : str[i] = "\"" })
                          /\ out[1] = "\""
                          /\ out[Len(out)] = "\""
                 /\ RecordsOf(out \o <<"\n">>) = << <<str>> >>

\* C12's case: a string with a quote and a comma was escaped
C12_Witness ==
    /\ EscaperDone
    /\ escaper.value.kind = "string"
    /\ \E i, j \in DOMAIN escaper.value.text :
          escaper.value.text[i] = "\"" /\ escaper.value.text[j] = ","
    /\ escaper.field # <<>>

\* ------------------------------------------ claims on the query summary

SummarizerDone == summarizer.phase = "done"

\* C13: buildSummary gives rowsReturned = the number of rows, columns = the
\* union of the rows' keys in first-seen order without duplicates,
\* previewRows = the first min(5, rowsReturned) rows unchanged and in order,
\* and copies executedSql, requestedSql, queryId, requestedRows and the
\* limiter's applied and reason.
C13_SummaryCountsColumnsPreview ==
    SummarizerDone =>
        LET result == summarizer.result
            rows == result.rows
            s == summarizer.summary
            shown == IF Len(rows) < 5 THEN Len(rows) ELSE 5
        IN  /\ s.rowsReturned = Len(rows)
            /\ IsFirstSeenOrder(s.columns, rows)
            /\ Len(s.previewRows) = shown
            /\ \A i \in 1..shown : s.previewRows[i] = rows[i]
            /\ s.executedSql = result.executedSql
            /\ s.requestedSql = result.requestedSql
            /\ s.queryId = result.queryId
            /\ s.requestedRows = summarizer.requestedRows
            /\ s.limitAppliedInSql = result.limit.enforcedInSql
            /\ s.limitReason = result.limit.reason

\* C13's case: more than five rows, two of them sharing a key, were summarised
C13_Witness ==
    /\ SummarizerDone
    /\ Len(summarizer.result.rows) > 5
    /\ Len(summarizer.summary.previewRows) = 5
    /\ Len(summarizer.summary.columns) = 2
    /\ \E i, j \in DOMAIN summarizer.result.rows :
          i # j /\ summarizer.result.rows[i] = summarizer.result.rows[j]
                /\ summarizer.result.rows[i] # <<>>

\* ------------------------------------ claims on the limiter's LimitPlan

\* s holds t as a run of consecutive characters
Contains(s, t) ==
    \E i \in 1..(Len(s) - Len(t) + 1) : SubSeq(s, i, i + Len(t) - 1) = t

\* the clause the limiter injects for the cap m
InjectedClause(m) == <<"l","i","m","i","t"," ">> \o NumberToString(m)

\* the injected clause is in the comment-stripped view of sql
LimitEffective(sql, m) == Contains(stripSqlComments(sql), InjectedClause(m))

RefusalReasons ==
    { "empty-sql", "existing-limit-detected", "statement-type-not-supported-for-limit" }

\* C15: in every LimitPlan, applied is true iff the returned sql carries the
\* limiter's `limit <maxRows>` clause in its comment-stripped view; reason is
\* absent when applied is true; and when applied is false, reason is one of
\* the three refusals and sql is the trimmed input.
C15_AppliedIffLimitEffective ==
    LimiterDone =>
        LET p == limiter.plan
        IN  /\ p.applied <=> LimitEffective(p.sql, limiter.maxRows)
            /\ p.applied => p.reason = NoReason
            /\ ~p.applied => (p.reason \in RefusalReasons /\ p.sql = Trimmed)

RelimitedTwice == relimit.phase = "twice"

\* C14: if p = enforceSqlLimit(s, m) has applied = false, then
\* enforceSqlLimit(p.sql, m) has the same sql, applied = false and the same
\* reason as p.
C14_NonAppliedPlanIsFixedPoint ==
    (RelimitedTwice /\ ~relimit.first.applied)
        => /\ relimit.second.sql = relimit.first.sql
           /\ relimit.second.applied = FALSE
           /\ relimit.second.reason = relimit.first.reason

\* C14's case: a statement with whitespace around it that holds its own limit
\* was refused, and the refusal was given to the limiter again
C14_Witness ==
    /\ RelimitedTwice
    /\ relimit.first.reason = "existing-limit-detected"
    /\ relimit.sqlText # relimit.first.sql
    /\ relimit.second.reason = "existing-limit-detected"

\* C17: if p = enforceSqlLimit(s, m) has applied = true, then
\* enforceSqlLimit(p.sql, m) has applied = false, the reason
\* "existing-limit-detected" and sql = p.sql: no second limit is added.
C17_RewrittenPlanIsFixedPoint ==
    (RelimitedTwice /\ relimit.first.applied)
        => relimit.second = [sql |-> relimit.first.sql, applied |-> FALSE,
                             reason |-> "existing-limit-detected"]

\* ------------------------------------------- claims on the order of a run

\* where the rows are printed: the CSV text or the no-rows message
PrintTags == { "Rows (CSV):", "csvOutput", "Rows (CSV): [no rows returned]" }

Printed == { i \in DOMAIN console : console[i].tag \in PrintTags }

Logged(tag) == { i \in DOMAIN console : console[i].tag = tag }

\* the run is one of the revision that persists, and its query succeeded
PersistRunSucceeded == inputs.rev = "persist" /\ locals.settled = "resolved"

\* the steps so far are in order: the plan before runSql, runSql with the
\* plan's sql, then truncation and summary, then persist or print, not both
StepsInOrder ==
    /\ pc = "start" => (runSqlCalls = <<>> /\ locals.limitPlan = NoPlan)
    /\ (inputs.rev = "persist" /\ pc = "runSql")
          => /\ locals.limitPlan = enforceSqlLimit(locals.sqlText, locals.maxRows)
             /\ runSqlCalls = <<locals.limitPlan.sql>>
             /\ locals.output = NoOutput
             /\ locals.summary = NoSummary
             /\ Logged("Summary:") = {}
             /\ Printed = {}
             /\ locals.persistCalls = 0
             /\ fsOps = <<>>
    /\ PersistRunSucceeded
          => /\ runSqlCalls = <<locals.limitPlan.sql>>
             /\ locals.output # NoOutput
             /\ locals.summary.rowCount = locals.output.rowCount
             /\ locals.summary.executedSql = locals.limitPlan.sql
             /\ Cardinality(Logged("Summary:")) = 1
             /\ \A i \in Logged("Summary:"), j \in Printed : i < j
             /\ IF locals.persistence.enabled
                THEN /\ locals.persistCalls = 1
                     /\ Printed = {}
                ELSE /\ locals.persistCalls = 0
                     /\ fsOps = <<>>
                     /\ pc = "done"
                     /\ IF locals.output.rows = <<>>
                        THEN /\ Cardinality(Logged("Rows (CSV): [no rows returned]")) = 1
                             /\ Logged("csvOutput") = {}
                        ELSE /\ Cardinality(Logged("csvOutput")) = 1
                             /\ Logged("Rows (CSV): [no rows returned]") = {}

\* with persistence disabled, nothing is created, removed or written
DiskUntouchedWhenDisabled ==
    (inputs.rev = "persist" /\ ~resolvePersistenceOptions(inputs).enabled)
        => disk' = disk

OutputValue(name) ==
    IF \E i \in DOMAIN outputs : outputs[i].name = name
    THEN outputs[CHOOSE i \in DOMAIN outputs : outputs[i].name = name].value
    ELSE <<>>

FileAt(p) == { f \in disk.files : f.path = p }

\* C18: at the end of a run the outputs result-file and result-metadata-file
\* are both empty or both non-empty; they are non-empty only if persistence
\* was enabled and the CSV file and the metadata file were written at those
\* paths in this run, after the remove and mkdir steps; they never name a file
\* that was not written.
C18_OutputsNameWrittenFiles ==
    pc = "done" =>
        LET csv == OutputValue("result-file")
            meta == OutputValue("result-metadata-file")
        IN  /\ (csv = <<>>) <=> (meta = <<>>)
            /\ Len(outputs) \in {0, 2}
            /\ csv # <<>> =>
                  /\ locals.persistence.enabled
                  /\ Len(fsOps) = 4
                  /\ fsOps[1].op = "rm"
                  /\ fsOps[2] = FsOp("mkdir", locals.resolvedDir, TRUE)
                  /\ fsOps[3] = FsOp("writeFile", csv, TRUE)
                  /\ fsOps[4] = FsOp("writeFile", meta, TRUE)
                  /\ \E f \in FileAt(csv) : f.body.kind = "csv"
                  /\ \E f \in FileAt(meta) : f.body.kind = "meta"
            /\ (\E i \in DOMAIN fsOps : fsOps[i].op # "rm" /\ ~fsOps[i].ok)
                  => (csv = <<>> /\ meta = <<>>)

\* C18's case: the CSV was written, the metadata write failed, the run ended
C18_Witness ==
    /\ pc = "done"
    /\ Len(fsOps) = 4
    /\ fsOps[3].ok
    /\ ~fsOps[4].ok
    /\ outputs = EmptyFileOutputs

=============================================================================
